---- MODULE Spec2Model ----
(***************************************************************************)
(* Model of multilingual_t5/tasks.py: the module body as a sequence of     *)
(* statements run against the process-wide task and mixture registries,    *)
(* the sacrebleu tokenizer table, and the bleu metric function.            *)
(*                                                                         *)
(* Python strings are sequences of one-character strings, so that          *)
(* str.replace and str.format are computed character by character and two  *)
(* names are equal exactly when their characters are.                      *)
(***************************************************************************)
EXTENDS Integers, Sequences, FiniteSets, TLC

\* ------------------------------------------------------------------------
\* Bounds of the model.

\* Largest number of times the module body is executed in one process.
MaxLoads == 2

\* Largest number of predictions / targets handed to bleu.
MaxPreds == 2

\* Largest number of references inside one element of a nested targets list.
MaxRefs == 1

\* Largest example count handed to the rate function.
MaxExamples == 12

\* ------------------------------------------------------------------------
\* Language lists and string literals of the module.

\* tfds.text.c4.MC4_LANGUAGES (108 codes), bound to MC4_LANGS at line 42.
MC4_LANGS ==
  <<
    <<"a","f">>, <<"a","m">>, <<"a","r">>, <<"a","z">>, <<"b","e">>,
    <<"b","g">>, <<"b","g","-","L","a","t","n">>, <<"b","n">>, <<"c","a">>,
    <<"c","e","b">>, <<"c","o">>, <<"c","s">>, <<"c","y">>, <<"d","a">>,
    <<"d","e">>, <<"e","l">>, <<"e","l","-","L","a","t","n">>, <<"e","n">>,
    <<"e","o">>, <<"e","s">>, <<"e","t">>, <<"e","u">>, <<"f","a">>,
    <<"f","i">>, <<"f","i","l">>, <<"f","r">>, <<"f","y">>, <<"g","a">>,
    <<"g","d">>, <<"g","l">>, <<"g","u">>, <<"h","a">>, <<"h","a","w">>,
    <<"h","i">>, <<"h","i","-","L","a","t","n">>, <<"h","m","n">>,
    <<"h","t">>, <<"h","u">>, <<"h","y">>, <<"i","d">>, <<"i","g">>,
    <<"i","s">>, <<"i","t">>, <<"i","w">>, <<"j","a">>,
    <<"j","a","-","L","a","t","n">>, <<"j","v">>, <<"k","a">>, <<"k","k">>,
    <<"k","m">>, <<"k","n">>, <<"k","o">>, <<"k","u">>, <<"k","y">>,
    <<"l","a">>, <<"l","b">>, <<"l","o">>, <<"l","t">>, <<"l","v">>,
    <<"m","g">>, <<"m","i">>, <<"m","k">>, <<"m","l">>, <<"m","n">>,
    <<"m","r">>, <<"m","s">>, <<"m","t">>, <<"m","y">>, <<"n","e">>,
    <<"n","l">>, <<"n","o">>, <<"n","y">>, <<"p","a">>, <<"p","l">>,
    <<"p","s">>, <<"p","t">>, <<"r","o">>, <<"r","u">>,
    <<"r","u","-","L","a","t","n">>, <<"s","d">>, <<"s","i">>, <<"s","k">>,
    <<"s","l">>, <<"s","m">>, <<"s","n">>, <<"s","o">>, <<"s","q">>,
    <<"s","r">>, <<"s","t">>, <<"s","u">>, <<"s","v">>, <<"s","w">>,
    <<"t","a">>, <<"t","e">>, <<"t","g">>, <<"t","h">>, <<"t","r">>,
    <<"u","k">>, <<"u","n","d">>, <<"u","r">>, <<"u","z">>, <<"v","i">>,
    <<"x","h">>, <<"y","i">>, <<"y","o">>, <<"z","h">>,
    <<"z","h","-","L","a","t","n">>, <<"z","u">>
  >>

\* WIKI_LANGS, lines 49-59 (103 codes).
WIKI_LANGS ==
  <<
    <<"a","f">>, <<"a","n">>, <<"a","r">>, <<"a","s","t">>, <<"a","z">>,
    <<"a","z","b">>, <<"b","a">>, <<"b","a","r">>, <<"b","e">>, <<"b","g">>,
    <<"b","n">>, <<"b","p","y">>, <<"b","r">>, <<"b","s">>, <<"c","a">>,
    <<"c","e">>, <<"c","e","b">>, <<"c","s">>, <<"c","v">>, <<"c","y">>,
    <<"d","a">>, <<"d","e">>, <<"e","l">>, <<"e","n">>, <<"e","s">>,
    <<"e","t">>, <<"e","u">>, <<"f","a">>, <<"f","i">>, <<"f","r">>,
    <<"f","y">>, <<"g","a">>, <<"g","l">>, <<"g","u">>, <<"h","e">>,
    <<"h","i">>, <<"h","r">>, <<"h","t">>, <<"h","u">>, <<"h","y">>,
    <<"i","d">>, <<"i","o">>, <<"i","s">>, <<"i","t">>, <<"j","a">>,
    <<"j","v">>, <<"k","a">>, <<"k","k">>, <<"k","n">>, <<"k","o">>,
    <<"k","y">>, <<"l","a">>, <<"l","b">>, <<"l","m","o">>, <<"l","t">>,
    <<"l","v">>, <<"m","g">>, <<"m","i","n">>, <<"m","k">>, <<"m","l">>,
    <<"m","n">>, <<"m","r">>, <<"m","s">>, <<"m","y">>,
    <<"n","d","s","-","n","l">>, <<"n","e">>, <<"n","e","w">>, <<"n","l">>,
    <<"n","n">>, <<"n","o">>, <<"o","c">>, <<"p","a">>, <<"p","l">>,
    <<"p","m","s">>, <<"p","n","b">>, <<"p","t">>, <<"r","o">>, <<"r","u">>,
    <<"s","c","n">>, <<"s","c","o">>, <<"s","h">>, <<"s","k">>, <<"s","l">>,
    <<"s","q">>, <<"s","r">>, <<"s","u">>, <<"s","v">>, <<"s","w">>,
    <<"t","a">>, <<"t","e">>, <<"t","g">>, <<"t","h">>, <<"t","l">>,
    <<"t","r">>, <<"t","t">>, <<"u","k">>, <<"u","r">>, <<"u","z">>,
    <<"v","i">>, <<"v","o">>, <<"w","a","r">>, <<"y","o">>, <<"z","h">>
  >>

\* XNLI_LANGS, lines 111-114.
XNLI_LANGS ==
  <<
    <<"a","r">>, <<"b","g">>, <<"d","e">>, <<"e","l">>, <<"e","n">>,
    <<"e","s">>, <<"f","r">>, <<"h","i">>, <<"r","u">>, <<"s","w">>,
    <<"t","h">>, <<"t","r">>, <<"u","r">>, <<"v","i">>, <<"z","h">>
  >>

\* utils.PAWSX_LANGS (multilingual_t5/utils.py).
PAWSX_LANGS ==
  <<
    <<"d","e">>, <<"e","n">>, <<"e","s">>, <<"f","r">>, <<"j","a">>,
    <<"k","o">>, <<"z","h">>
  >>

\* TYDIQA_LANGS, line 222.
TYDIQA_LANGS ==
  <<
    <<"a","r">>, <<"b","n">>, <<"e","n">>, <<"f","i">>, <<"i","d">>,
    <<"k","o">>, <<"r","u">>, <<"s","w">>, <<"t","e">>
  >>

\* utils.XQUAD_LANGS_TRAIN_DEV (multilingual_t5/utils.py).
XQUAD_LANGS_TRAIN_DEV ==
  <<
    <<"a","r">>, <<"d","e">>, <<"e","l">>, <<"e","s">>, <<"h","i">>,
    <<"r","u">>, <<"t","h">>, <<"t","r">>, <<"v","i">>, <<"z","h">>
  >>

\* utils.XQUAD_LANGS_TEST (multilingual_t5/utils.py).
XQUAD_LANGS_TEST ==
  XQUAD_LANGS_TRAIN_DEV \o << <<"e","n">> >>

\* "mc4.{}", line 66.
T_mc4 ==
  <<"m","c","4",".","{}">>

\* "wiki.{}", line 84.
T_wiki ==
  <<"w","i","k","i",".","{}">>

\* "xnli_dev_test.{}", line 126.
T_xnli_dev_test ==
  <<"x","n","l","i","_","d","e","v","_","t","e","s","t",".","{}">>

\* "pawsx_dev_test.{}", line 178.
T_pawsx_dev_test ==
  <<"p","a","w","s","x","_","d","e","v","_","t","e","s","t",".","{}">>

\* "pawsx_translate.{}", line 188.
T_pawsx_translate ==
  <<"p","a","w","s","x","_","t","r","a","n","s","l","a","t","e",".","{}">>

\* "tydiqa_dev.{}", line 235.
T_tydiqa_dev ==
  <<"t","y","d","i","q","a","_","d","e","v",".","{}">>

\* "xquad_translate_train_dev.{}", line 263.
T_xquad_translate_train_dev ==
  <<"x","q","u","a","d","_","t","r","a","n","s","l","a","t","e","_","t","r","a","i","n","_","d","e","v",".","{}">>

\* "xquad_test.{}", line 277.
T_xquad_test ==
  <<"x","q","u","a","d","_","t","e","s","t",".","{}">>

\* "mc4", line 79.
N_mc4 ==
  <<"m","c","4">>

\* "wiki", line 100.
N_wiki ==
  <<"w","i","k","i">>

\* "mc4_wiki", line 104.
N_mc4_wiki ==
  <<"m","c","4","_","w","i","k","i">>

\* "xnli_train", line 117.
N_xnli_train ==
  <<"x","n","l","i","_","t","r","a","i","n">>

\* "xnli_dev_test.all_langs", line 137.
N_xnli_all_langs ==
  <<"x","n","l","i","_","d","e","v","_","t","e","s","t",".","a","l","l","_","l","a","n","g","s">>

\* "xnli_zeroshot", line 149.
N_xnli_zeroshot ==
  <<"x","n","l","i","_","z","e","r","o","s","h","o","t">>

\* "paws", line 167.
N_paws ==
  <<"p","a","w","s">>

\* "pawsx_dev_test.all_langs", line 198.
N_pawsx_all_langs ==
  <<"p","a","w","s","x","_","d","e","v","_","t","e","s","t",".","a","l","l","_","l","a","n","g","s">>

\* "pawsx_zeroshot", line 210.
N_pawsx_zeroshot ==
  <<"p","a","w","s","x","_","z","e","r","o","s","h","o","t">>

\* "pawsx_translate", line 217.
N_pawsx_translate ==
  <<"p","a","w","s","x","_","t","r","a","n","s","l","a","t","e">>

\* "tydiqa_train_dev", line 224.
N_tydiqa_train_dev ==
  <<"t","y","d","i","q","a","_","t","r","a","i","n","_","d","e","v">>

\* "tydiqa", line 246.
N_tydiqa ==
  <<"t","y","d","i","q","a">>

\* "squad_train_dev", line 251.
N_squad_train_dev ==
  <<"s","q","u","a","d","_","t","r","a","i","n","_","d","e","v">>

\* "xquad_test.all_langs", line 288.
N_xquad_all_langs ==
  <<"x","q","u","a","d","_","t","e","s","t",".","a","l","l","_","l","a","n","g","s">>

\* "xquad_zeroshot", line 299.
N_xquad_zeroshot ==
  <<"x","q","u","a","d","_","z","e","r","o","s","h","o","t">>

\* "xquad_translate", line 313.
N_xquad_translate ==
  <<"x","q","u","a","d","_","t","r","a","n","s","l","a","t","e">>

\* "snow", line 345.
N_snow ==
  <<"s","n","o","w">>

\* ------------------------------------------------------------------------
\* String operations.

\* str.replace(old, new) for one-character old and new.
replace(s, old, new) ==
  [i \in 1..Len(s) |-> IF s[i] = old THEN new ELSE s[i]]

\* The template used as the name, without substituting the argument.
format_nosubst(t, a) ==
  t

\* str.format with one positional argument: the "{}" field is replaced by
\* the characters of the argument.
RECURSIVE format(_, _)
format(t, a) ==
  IF t = <<>> THEN <<>>
  ELSE IF Head(t) = "{}" THEN a \o format(Tail(t), a)
  ELSE <<Head(t)>> \o format(Tail(t), a)

\* Concatenation of a sequence of sequences (the statements of an unrolled
\* for loop whose body has several statements).
RECURSIVE Flatten(_)
Flatten(ss) ==
  IF ss = <<>> THEN <<>> ELSE Head(ss) \o Flatten(Tail(ss))

\* ------------------------------------------------------------------------
\* Rate function.  Reals are exact rationals <<numerator, denominator>>
\* with a positive denominator, in lowest terms.

RECURSIVE GCD(_, _)
GCD(a, b) ==
  IF b = 0 THEN a ELSE GCD(b, a % b)

Abs(x) ==
  IF x < 0 THEN -x ELSE x

Rat(n, d) ==
  LET g == GCD(Abs(n), Abs(d))
      s == IF d < 0 THEN -1 ELSE 1
  IN  <<(s * n) \div g, (s * d) \div g>>

RatDiv(a, b) ==
  Rat(a[1] * b[2], a[2] * b[1])

\* The temperature set to 0.3 instead of its reciprocal.
DEFAULT_TEMPERATURE_direct ==
  Rat(3, 10)

\* DEFAULT_TEMPERATURE = 1.0 / 0.3
DEFAULT_TEMPERATURE ==
  RatDiv(Rat(1, 1), Rat(3, 10))

\* t5.data.utils.rate_num_examples for a task with n training examples:
\* n when temperature = 1.0, else n ** (1.0 / temperature).  The value is
\* kept as the pair (base, exponent).
rate_num_examples(n, temperature) ==
  IF temperature = Rat(1, 1)
    THEN [base |-> n, exp |-> Rat(1, 1)]
    ELSE [base |-> n, exp |-> RatDiv(Rat(1, 1), temperature)]

\* DEFAULT_MIX_RATE = functools.partial(rate_num_examples,
\*                                      temperature=DEFAULT_TEMPERATURE)
DEFAULT_MIX_RATE(n) ==
  rate_num_examples(n, DEFAULT_TEMPERATURE)

\* ------------------------------------------------------------------------
\* Statements of the module body.

\* The value of splits when the argument is not given (lines 83-97).
NoSplits ==
  {"None"}

ImportStmt(module, binds, line) ==
  [op |-> "import", line |-> line, module |-> module, binds |-> binds,
   name |-> <<>>, tasks |-> <<>>, splits |-> {}, metric |-> "", rate |-> ""]

AssignStmt(binds, line) ==
  [op |-> "assign", line |-> line, module |-> "", binds |-> binds,
   name |-> <<>>, tasks |-> <<>>, splits |-> {}, metric |-> "", rate |-> ""]

\* t5.data.TaskRegistry.add(name, ..., splits=..., metric_fns=[...])
TaskStmt(name, splits, metric, binds, line) ==
  [op |-> "task", line |-> line, module |-> "", binds |-> binds,
   name |-> name, tasks |-> <<>>, splits |-> splits, metric |-> metric,
   rate |-> ""]

\* t5.data.MixtureRegistry.add(name, tasks, default_rate=...)
MixtureStmt(name, tasks, rate, line) ==
  [op |-> "mixture", line |-> line, module |-> "", binds |-> {},
   name |-> name, tasks |-> tasks, splits |-> {}, metric |-> "",
   rate |-> rate]

\* TOKENIZERS["ja"] = tokenizer_ja
TokenizerStmt(key, value, line) ==
  [op |-> "tokenizer", line |-> line, module |-> value, binds |-> {},
   name |-> <<>>, tasks |-> <<>>, splits |-> {}, metric |-> key, rate |-> ""]

\* Lines 16-59: imports and module-level constants.
Preamble ==
  << ImportStmt("functools", {"functools"}, 16),
     ImportStmt("multilingual_t5.preprocessors", {"preprocessors"}, 18),
     ImportStmt("multilingual_t5.utils", {"utils"}, 19),
     ImportStmt("t5.data", {"t5"}, 21),
     ImportStmt("t5.data.sentencepiece_vocabulary",
                {"sentencepiece_vocabulary"}, 22),
     ImportStmt("t5.evaluation.metrics", {"metrics"}, 23),
     ImportStmt("tensorflow_datasets", {"tfds"}, 24),
     AssignStmt({"DEFAULT_SPM_PATH"}, 26),
     AssignStmt({"DEFAULT_TEMPERATURE"}, 29),
     AssignStmt({"DEFAULT_MIX_RATE"}, 30),
     AssignStmt({"DEFAULT_VOCAB"}, 33),
     AssignStmt({"DEFAULT_OUTPUT_FEATURES"}, 35),
     AssignStmt({"MC4_LANGS"}, 42),
     AssignStmt({"WIKI_LANGS"}, 49) >>

\* The mc4 list built from the language codes as they are, without replace.
mc4_unnormalised ==
  [i \in 1..Len(MC4_LANGS) |-> format(T_mc4, MC4_LANGS[i])]

\* mc4 = ["mc4.{}".format(lang.replace("-", "_")) for lang in MC4_LANGS]
mc4 ==
  [i \in 1..Len(MC4_LANGS) |-> format(T_mc4, replace(MC4_LANGS[i], "-", "_"))]

\* wiki = ["wiki.{}".format(lang.replace("-", "_")) for lang in WIKI_LANGS]
wiki ==
  [i \in 1..Len(WIKI_LANGS) |->
     format(T_wiki, replace(WIKI_LANGS[i], "-", "_"))]

\* Lines 64-104.
Pretraining ==
  [i \in 1..Len(MC4_LANGS) |->
     TaskStmt(format(T_mc4, replace(MC4_LANGS[i], "-", "_")),
              {"train", "validation"}, "", {"lang"}, 65)]
  \o << AssignStmt({"mc4"}, 78),
        MixtureStmt(N_mc4, mc4, "DEFAULT_MIX_RATE", 79) >>
  \o [i \in 1..Len(WIKI_LANGS) |->
        TaskStmt(format(T_wiki, replace(WIKI_LANGS[i], "-", "_")),
                 NoSplits, "", {"lang"}, 83)]
  \o << AssignStmt({"wiki"}, 99),
        MixtureStmt(N_wiki, wiki, "DEFAULT_MIX_RATE", 100),
        MixtureStmt(N_mc4_wiki, mc4 \o wiki, "DEFAULT_MIX_RATE", 103) >>

\* xnli_zeroshot, lines 147-148.
xnli_zeroshot ==
  <<N_xnli_train, N_xnli_all_langs>>
  \o [i \in 1..Len(XNLI_LANGS) |-> format(T_xnli_dev_test, XNLI_LANGS[i])]

\* Lines 111-149.
XnliStmts ==
  << AssignStmt({"XNLI_LANGS"}, 111),
     TaskStmt(N_xnli_train, {"train"}, "accuracy", {}, 116) >>
  \o [i \in 1..Len(XNLI_LANGS) |->
        TaskStmt(format(T_xnli_dev_test, XNLI_LANGS[i]),
                 {"validation", "test"}, "accuracy", {"lang"}, 125)]
  \o << TaskStmt(N_xnli_all_langs, {"validation", "test"}, "accuracy",
                 {}, 136),
        AssignStmt({"xnli_zeroshot"}, 147),
        MixtureStmt(N_xnli_zeroshot, xnli_zeroshot, "1.0", 149) >>

\* The zero-shot list built with the translate-train tasks in place of the
\* dev/test tasks.
pawsx_with_translate ==
  <<N_paws>> \o <<N_pawsx_all_langs>>
  \o [i \in 1..Len(PAWSX_LANGS) |-> format(T_pawsx_translate, PAWSX_LANGS[i])]

\* pawsx, lines 207-209.
pawsx ==
  <<N_paws>> \o <<N_pawsx_all_langs>>
  \o [i \in 1..Len(PAWSX_LANGS) |-> format(T_pawsx_dev_test, PAWSX_LANGS[i])]

\* pawsx_translate, lines 212-215.
pawsx_translate ==
  [i \in 1..Len(PAWSX_LANGS) |-> format(T_pawsx_translate, PAWSX_LANGS[i])]
  \o <<N_pawsx_all_langs>>
  \o [i \in 1..Len(PAWSX_LANGS) |-> format(T_pawsx_dev_test, PAWSX_LANGS[i])]

\* Lines 152-217.
PawsStmts ==
  << AssignStmt({"label_names"}, 152),
     AssignStmt({"text_preprocessor"}, 153),
     AssignStmt({"postprocess_fn"}, 162),
     TaskStmt(N_paws, {"train"}, "accuracy", {}, 166) >>
  \o Flatten([i \in 1..Len(PAWSX_LANGS) |->
        << TaskStmt(format(T_pawsx_dev_test, PAWSX_LANGS[i]),
                    {"validation", "test"}, "accuracy", {"lang"}, 177),
           TaskStmt(format(T_pawsx_translate, PAWSX_LANGS[i]),
                    {"train"}, "accuracy", {}, 187) >>])
  \o << TaskStmt(N_pawsx_all_langs, {"validation", "test"}, "accuracy",
                 {}, 197),
        AssignStmt({"pawsx"}, 207),
        MixtureStmt(N_pawsx_zeroshot, pawsx, "1.0", 210),
        AssignStmt({"pawsx_translate"}, 212),
        MixtureStmt(N_pawsx_translate, pawsx_translate, "1.0", 216) >>

\* tydiqa, lines 244-245.
tydiqa ==
  <<N_tydiqa_train_dev>>
  \o [i \in 1..Len(TYDIQA_LANGS) |-> format(T_tydiqa_dev, TYDIQA_LANGS[i])]

\* Lines 222-246.
TydiqaStmts ==
  << AssignStmt({"TYDIQA_LANGS"}, 222),
     TaskStmt(N_tydiqa_train_dev, {"train", "validation"}, "squad", {}, 223) >>
  \o [i \in 1..Len(TYDIQA_LANGS) |->
        TaskStmt(format(T_tydiqa_dev, TYDIQA_LANGS[i]),
                 {"validation"}, "squad", {"lang"}, 234)]
  \o << AssignStmt({"tydiqa"}, 244),
        MixtureStmt(N_tydiqa, tydiqa, "1.0", 246) >>

\* xquad_test, line 297.
xquad_test ==
  [i \in 1..Len(XQUAD_LANGS_TEST) |->
     format(T_xquad_test, XQUAD_LANGS_TEST[i])]

\* xquad_zeroshot, line 298.
xquad_zeroshot ==
  <<N_squad_train_dev, N_xquad_all_langs>> \o xquad_test

\* xquad_translate_train_dev, lines 306-309.
xquad_translate_train_dev ==
  [i \in 1..Len(XQUAD_LANGS_TRAIN_DEV) |->
     format(T_xquad_translate_train_dev, XQUAD_LANGS_TRAIN_DEV[i])]
  \o <<N_squad_train_dev>>

\* xquad_translate, lines 310-311.
xquad_translate ==
  xquad_translate_train_dev \o <<N_xquad_all_langs>> \o xquad_test

\* Lines 250-313.
XquadStmts ==
  << TaskStmt(N_squad_train_dev, {"train", "validation"}, "squad", {}, 250) >>
  \o [i \in 1..Len(XQUAD_LANGS_TRAIN_DEV) |->
        TaskStmt(format(T_xquad_translate_train_dev, XQUAD_LANGS_TRAIN_DEV[i]),
                 {"train", "validation"}, "squad", {"lang"}, 262)]
  \o [i \in 1..Len(XQUAD_LANGS_TEST) |->
        TaskStmt(format(T_xquad_test, XQUAD_LANGS_TEST[i]),
                 {"test"}, "squad", {"lang"}, 276)]
  \o << TaskStmt(N_xquad_all_langs, {"test"}, "squad", {}, 287),
        AssignStmt({"xquad_test"}, 297),
        AssignStmt({"xquad_zeroshot"}, 298),
        MixtureStmt(N_xquad_zeroshot, xquad_zeroshot, "1.0", 299),
        AssignStmt({"xquad_translate_train_dev"}, 306),
        AssignStmt({"xquad_translate"}, 310),
        MixtureStmt(N_xquad_translate, xquad_translate, "1.0", 312) >>

\* The "snow" task registered before the tokenizer is installed.
AddedStmts_snow_first ==
  << ImportStmt("sumeval.metrics.lang.lang_ja", {"LangJA"}, 316),
     ImportStmt("sacrebleu", {"corpus_bleu", "TOKENIZERS"}, 317),
     AssignStmt({"bleu"}, 325),
     AssignStmt({"snow_tsv_path"}, 338),
     TaskStmt(N_snow, {"train", "validation", "test"}, "bleu", {}, 344),
     AssignStmt({"lang_ja"}, 319),
     AssignStmt({"tokenizer_ja"}, 320),
     TokenizerStmt("ja", "tokenizer_ja", 323) >>

\* Lines 316-354.
AddedStmts ==
  << ImportStmt("sumeval.metrics.lang.lang_ja", {"LangJA"}, 316),
     ImportStmt("sacrebleu", {"corpus_bleu", "TOKENIZERS"}, 317),
     AssignStmt({"lang_ja"}, 319),
     AssignStmt({"tokenizer_ja"}, 320),
     TokenizerStmt("ja", "tokenizer_ja", 323),
     AssignStmt({"bleu"}, 325),
     AssignStmt({"snow_tsv_path"}, 338),
     TaskStmt(N_snow, {"train", "validation", "test"}, "bleu", {}, 344) >>

\* The module body in execution order.
Program ==
  Preamble \o Pretraining \o XnliStmts \o PawsStmts \o TydiqaStmts
  \o XquadStmts \o AddedStmts

\* ------------------------------------------------------------------------
\* Python values handed to bleu: text (str or bytes) and lists.

Text(type, s) ==
  [type |-> type, s |-> s, items |-> <<>>]

List(items) ==
  [type |-> "list", s |-> "", items |-> items]

\* isinstance(x, list)
isinstance_list(x) ==
  x.type = "list"

\* tf.compat.as_text: bytes are decoded, str is returned as it is.
as_text(x) ==
  [x EXCEPT !.type = "str"]

SeqsUpTo(S, n) ==
  UNION {[1..k -> S] : k \in 0..n}

Texts ==
  {Text("str", "a"), Text("str", "b"), Text("bytes", "a")}

\* Argument values of bleu: predictions, and targets either flat (one
\* reference per prediction) or nested (a list per element).
Predictions ==
  SeqsUpTo(Texts, MaxPreds)

FlatTargets ==
  SeqsUpTo(Texts, MaxPreds)

NestedTargets ==
  SeqsUpTo({List(r) : r \in SeqsUpTo(Texts, MaxRefs)}, MaxPreds) \ {<<>>}

\* Scores the scoring routine may return.
BleuScores ==
  {0, 50, 100}

NoValue ==
  [k \in {} |-> 0]

\* The outcome of a call of bleu that raised before the scoring routine was
\* called.
Raised(exc) ==
  [outcome |-> exc, scored |-> FALSE, hyps |-> <<>>, refs |-> <<>>,
   value |-> NoValue]

\* sacrebleu.corpus_bleu(sys_stream, ref_streams, ..., tokenize="ja"), as
\* called at lines 334-335: every reference stream is zipped with the
\* system stream and must have its length; each line is tokenized with
\* TOKENIZERS[tokenize]; the result carries the score.
corpus_bleu(hyps, refs, tokenizers, score) ==
  IF \E i \in 1..Len(refs) : Len(refs[i]) # Len(hyps)
    THEN [outcome |-> "EOFError", scored |-> TRUE, hyps |-> hyps,
          refs |-> refs, value |-> NoValue]
  ELSE IF hyps # <<>> /\ "ja" \notin DOMAIN tokenizers
    THEN [outcome |-> "KeyError", scored |-> TRUE, hyps |-> hyps,
          refs |-> refs, value |-> NoValue]
  ELSE [outcome |-> "returned", scored |-> TRUE, hyps |-> hyps,
        refs |-> refs, value |-> [bleu |-> score]]

\* bleu(targets, predictions), lines 325-336.  globals is the module
\* namespace in which the names of the body are looked up; a list
\* comprehension over an empty list evaluates no name.
bleu(targets, predictions, globals, tokenizers, score) ==
  IF predictions # <<>> /\ "tf" \notin globals
    THEN Raised("NameError")
  ELSE IF targets = <<>>
    THEN Raised("IndexError")
  ELSE IF isinstance_list(targets[1])
    THEN IF (\E i \in 1..Len(targets) : targets[i].items # <<>>)
            /\ "tf" \notin globals
           THEN Raised("NameError")
           ELSE corpus_bleu(
                  [i \in 1..Len(predictions) |-> as_text(predictions[i])],
                  [i \in 1..Len(targets) |->
                     [j \in 1..Len(targets[i].items) |->
                        as_text(targets[i].items[j])]],
                  tokenizers, score)
  ELSE IF "tf" \notin globals
    THEN Raised("NameError")
  ELSE corpus_bleu(
         [i \in 1..Len(predictions) |-> as_text(predictions[i])],
         << [i \in 1..Len(targets) |-> as_text(targets[i])] >>,
         tokenizers, score)

\* ------------------------------------------------------------------------
\* State.

VARIABLES
  pc,               \* index in Program of the statement to run next
  status,           \* "loading", "done" or "failed" (an exception left the body)
  loads,            \* executions of the module body started so far
  TaskRegistry,     \* t5.data.TaskRegistry: name -> task
  MixtureRegistry,  \* t5.data.MixtureRegistry: name -> mixture
  TOKENIZERS,       \* sacrebleu.TOKENIZERS: key -> tokenizer
  namespace,        \* names bound in the module namespace
  sysModules,       \* sys.modules: modules already imported in the process
  added,            \* names registered by the current load
  startTasks,       \* TaskRegistry when the current load started
  startMixtures,    \* MixtureRegistry when the current load started
  tokWrites,        \* writes of TOKENIZERS["ja"] by the current load
  call,             \* the call of bleu not yet consumed: arguments, result
  rateIn,           \* example counts handed to DEFAULT_MIX_RATE
  rateOut           \* the rates returned for rateIn

vars ==
  <<pc, status, loads, TaskRegistry, MixtureRegistry, TOKENIZERS, namespace,
    sysModules, added, startTasks, startMixtures, tokWrites, call, rateIn,
    rateOut>>

loadVars ==
  <<pc, status, loads, TaskRegistry, MixtureRegistry, TOKENIZERS, namespace,
    sysModules, added, startTasks, startMixtures, tokWrites>>

EmptyRegistry ==
  [n \in {} |-> n]

\* sacrebleu.TOKENIZERS as the library defines it.
DefaultTokenizers ==
  ("13a" :> "tokenize_13a") @@ ("intl" :> "tokenize_v14_international")
  @@ ("zh" :> "tokenize_zh") @@ ("none" :> "identity")

\* Modules of the standard library: importing them cannot fail.
StdlibModules ==
  {"functools"}

NoCall ==
  [made |-> FALSE, targets |-> <<>>, predictions |-> <<>>,
   result |-> Raised("")]

LoadInit ==
  /\ pc = 1
  /\ status = "loading"
  /\ loads = 1
  /\ TaskRegistry = EmptyRegistry
  /\ MixtureRegistry = EmptyRegistry
  /\ TOKENIZERS = DefaultTokenizers
  /\ namespace = {}
  /\ sysModules = {}
  /\ added = {}
  /\ startTasks = EmptyRegistry
  /\ startMixtures = EmptyRegistry
  /\ tokWrites = 0
  /\ call = NoCall

Init ==
  /\ LoadInit
  /\ rateIn = <<1, 1>>
  /\ rateOut = <<>>

Stmt ==
  Program[pc]

\* The statement at pc completed: control moves to the next statement, or
\* the load is complete.
Advance ==
  /\ pc' = pc + 1
  /\ status' = IF pc = Len(Program) THEN "done" ELSE "loading"
  /\ UNCHANGED <<loads, startTasks, startMixtures, call, rateIn, rateOut>>

\* A failing load that undoes the registrations it made.
Raise_rollback ==
  /\ pc' = pc
  /\ status' = "failed"
  /\ TaskRegistry' = startTasks
  /\ MixtureRegistry' = startMixtures
  /\ UNCHANGED <<loads, TOKENIZERS, namespace, sysModules, added, startTasks,
                 startMixtures, tokWrites, call, rateIn, rateOut>>

\* An exception left the statement at pc: the module body is abandoned.
Raise ==
  /\ pc' = pc
  /\ status' = "failed"
  /\ UNCHANGED <<loads, TaskRegistry, MixtureRegistry, TOKENIZERS, namespace,
                 sysModules, added, startTasks, startMixtures, tokWrites,
                 call, rateIn, rateOut>>

\* import / from ... import: binds the names; a module that is not yet in
\* sys.modules and is not installed raises ImportError.
Import ==
  /\ status = "loading"
  /\ Stmt.op = "import"
  /\ \E found \in IF Stmt.module \in sysModules \cup StdlibModules
                    THEN {TRUE} ELSE BOOLEAN :
       IF found
         THEN /\ namespace' = namespace \cup Stmt.binds
              /\ sysModules' = sysModules \cup {Stmt.module}
              /\ Advance
              /\ UNCHANGED <<TaskRegistry, MixtureRegistry, TOKENIZERS, added,
                             tokWrites>>
         ELSE Raise

\* A module-level assignment or def.
Assign ==
  /\ status = "loading"
  /\ Stmt.op = "assign"
  /\ namespace' = namespace \cup Stmt.binds
  /\ Advance
  /\ UNCHANGED <<TaskRegistry, MixtureRegistry, TOKENIZERS, sysModules, added,
                 tokWrites>>

\* A registry that replaces the entry of a name it already holds.
TaskRegistry_add_overwrite(registry, name, task) ==
  [raised |-> FALSE, registry |-> (name :> task) @@ registry]

\* TaskRegistry.add: a name already in the registry raises ValueError, else
\* the task is stored under the name.
TaskRegistry_add(registry, name, task) ==
  IF name \in DOMAIN registry
    THEN [raised |-> TRUE, registry |-> registry]
    ELSE [raised |-> FALSE, registry |-> (name :> task) @@ registry]

AddTask ==
  /\ status = "loading"
  /\ Stmt.op = "task"
  /\ LET r == TaskRegistry_add(TaskRegistry, Stmt.name,
                               [splits |-> Stmt.splits,
                                metric_fns |-> Stmt.metric])
     IN  IF r.raised
           THEN Raise
           ELSE /\ TaskRegistry' = r.registry
                /\ added' = added \cup {Stmt.name}
                /\ namespace' = namespace \cup Stmt.binds
                /\ Advance
                /\ UNCHANGED <<MixtureRegistry, TOKENIZERS, sysModules,
                               tokWrites>>

\* MixtureRegistry.add: a name already in the registry raises ValueError;
\* the mixture looks up each constituent name, which raises when the name
\* is neither a registered task nor a registered mixture.
MixtureRegistry_add(registry, tasks, name, mixture) ==
  IF \/ name \in DOMAIN registry
     \/ \E i \in 1..Len(mixture.tasks) :
          mixture.tasks[i] \notin (DOMAIN tasks \cup DOMAIN registry)
    THEN [raised |-> TRUE, registry |-> registry]
    ELSE [raised |-> FALSE, registry |-> (name :> mixture) @@ registry]

AddMixture ==
  /\ status = "loading"
  /\ Stmt.op = "mixture"
  /\ LET r == MixtureRegistry_add(MixtureRegistry, TaskRegistry, Stmt.name,
                                  [tasks |-> Stmt.tasks,
                                   default_rate |-> Stmt.rate])
     IN  IF r.raised
           THEN Raise
           ELSE /\ MixtureRegistry' = r.registry
                /\ added' = added \cup {Stmt.name}
                /\ Advance
                /\ UNCHANGED <<TaskRegistry, TOKENIZERS, namespace,
                               sysModules, tokWrites>>

\* TOKENIZERS["ja"] = tokenizer_ja
SetTokenizer ==
  /\ status = "loading"
  /\ Stmt.op = "tokenizer"
  /\ TOKENIZERS' = (Stmt.metric :> Stmt.module) @@ TOKENIZERS
  /\ tokWrites' = tokWrites + 1
  /\ Advance
  /\ UNCHANGED <<TaskRegistry, MixtureRegistry, namespace, sysModules, added>>

\* The module body is executed again in the same process: a reload of the
\* loaded module keeps its namespace, an import after a failed import starts
\* from a new one.  The registries, sys.modules and the tokenizer table
\* belong to the process and stay.  Execution is single-threaded: no call of
\* bleu is pending.
Reload ==
  /\ status \in {"done", "failed"}
  /\ ~call.made
  /\ loads < MaxLoads
  /\ loads' = loads + 1
  /\ pc' = 1
  /\ status' = "loading"
  /\ namespace' = IF status = "done" THEN namespace ELSE {}
  /\ added' = {}
  /\ startTasks' = TaskRegistry
  /\ startMixtures' = MixtureRegistry
  /\ tokWrites' = 0
  /\ UNCHANGED <<TaskRegistry, MixtureRegistry, TOKENIZERS, sysModules, call,
                 rateIn, rateOut>>

\* The evaluation of the "snow" task calls its metric function.
CallBleu ==
  /\ status # "loading"
  /\ ~call.made
  /\ "bleu" \in namespace
  /\ \E targets \in FlatTargets \cup NestedTargets :
     \E predictions \in Predictions :
     \E score \in BleuScores :
       call' = [made |-> TRUE, targets |-> targets,
                predictions |-> predictions,
                result |-> bleu(targets, predictions, namespace, TOKENIZERS,
                                score)]
  /\ UNCHANGED loadVars
  /\ UNCHANGED <<rateIn, rateOut>>

\* The caller of bleu has consumed the outcome of the call; the next call
\* can be made.
ReturnBleu ==
  /\ call.made
  /\ call' = NoCall
  /\ UNCHANGED loadVars
  /\ UNCHANGED <<rateIn, rateOut>>

Next ==
  \/ Import
  \/ Assign
  \/ AddTask
  \/ AddMixture
  \/ SetTokenizer
  \/ Reload
  \/ CallBleu
  \/ ReturnBleu

Spec ==
  Init /\ [][Next]_vars

\* ------------------------------------------------------------------------
\* The rate function applied to two example counts.

RateInit ==
  /\ LoadInit
  /\ rateIn \in (1..MaxExamples) \X (1..MaxExamples)
  /\ rateOut = <<>>

ApplyRate ==
  /\ rateOut = <<>>
  /\ rateOut' = <<DEFAULT_MIX_RATE(rateIn[1]), DEFAULT_MIX_RATE(rateIn[2])>>
  /\ UNCHANGED loadVars
  /\ UNCHANGED <<call, rateIn>>

RateNext ==
  ApplyRate

SpecRate ==
  RateInit /\ [][RateNext]_vars

\* ------------------------------------------------------------------------
\* Properties.

\* Indices of the statements of Program with the given operation.
StmtsOf(op) ==
  {i \in 1..Len(Program) : Program[i].op = op}

\* Index of the first TaskRegistry.add of the module body.
FirstTaskAdd ==
  CHOOSE i \in StmtsOf("task") : \A j \in StmtsOf("task") : i <= j

\* Names registered by the statements of the given operation before index k.
NamesBefore(op, k) ==
  {Program[i].name : i \in {j \in StmtsOf(op) : j < k}}

HasPrefix(p, s) ==
  /\ Len(p) <= Len(s)
  /\ \A i \in 1..Len(p) : s[i] = p[i]

RECURSIVE Pow(_, _)
Pow(b, e) ==
  IF e = 0 THEN 1 ELSE b * Pow(b, e - 1)

\* a <= b for two powers with the same exponent p/q, q > 0.
PowLeq(a, b) ==
  /\ a.exp = b.exp
  /\ IF a.exp[1] >= 0
       THEN Pow(a.base, a.exp[1]) <= Pow(b.base, a.exp[1])
       ELSE Pow(a.base, -a.exp[1]) >= Pow(b.base, -a.exp[1])

\* The load in progress started from empty registries.
CleanLoad ==
  /\ startTasks = EmptyRegistry
  /\ startMixtures = EmptyRegistry

\* C1: whenever a MixtureRegistry.add statement is about to run, every task
\* name in the list passed to it is in the TaskRegistry and was added there
\* by an earlier statement of the same load.
C1_MixtureTasksRegistered ==
  (status = "loading" /\ Stmt.op = "mixture") =>
    \A i \in 1..Len(Stmt.tasks) :
      /\ Stmt.tasks[i] \in DOMAIN TaskRegistry
      /\ Stmt.tasks[i] \in added

\* C1 witness: the last mixture, xquad_translate, is about to be added.
C1_Witness ==
  /\ status = "loading"
  /\ Stmt.op = "mixture"
  /\ Stmt.name = N_xquad_translate
  /\ Len(Stmt.tasks) > 0

\* C2: within one load no TaskRegistry.add call uses a name that an earlier
\* add call of that load used, whether the two names come from the same
\* template, from different templates or from literals; the 103 codes of
\* WIKI_LANGS yield 103 distinct "wiki.*" task names.
C2_TaskNamesUnique ==
  /\ (status = "loading" /\ Stmt.op = "task") => Stmt.name \notin added
  /\ status = "done" =>
       /\ Len(WIKI_LANGS) = 103
       /\ Cardinality({n \in added : HasPrefix(format(T_wiki, <<>>), n)}) = 103
       /\ Cardinality(added \cap DOMAIN TaskRegistry)
            = Cardinality(StmtsOf("task"))

\* C2 witness: a load has completed, with the task of the code "nds-nl"
\* registered under its normalised name.
C2_Witness ==
  /\ status = "done"
  /\ <<"w","i","k","i",".","n","d","s","_","n","l">> \in added

\* C3: DEFAULT_MIX_RATE returns n^(3/10) for a task with n examples, and for
\* n <= m the rate of n is at most the rate of m.
C3_RateMonotone ==
  rateOut # <<>> =>
    /\ rateOut[1] = [base |-> rateIn[1], exp |-> <<3, 10>>]
    /\ rateOut[2] = [base |-> rateIn[2], exp |-> <<3, 10>>]
    /\ rateIn[1] <= rateIn[2] => PowLeq(rateOut[1], rateOut[2])
    /\ rateIn[1] > rateIn[2] => ~PowLeq(rateOut[1], rateOut[2])

\* C3 witness: the rate was computed for two different counts n < m.
C3_Witness ==
  /\ rateOut # <<>>
  /\ rateIn[1] < rateIn[2]
  /\ rateIn[2] = MaxExamples

\* C4: bleu of a non-empty list of predictions with targets equal to the
\* predictions element by element returns {"bleu": 100}.
C4_IdenticalScores100 ==
  (call.made /\ call.predictions # <<>> /\ call.targets = call.predictions) =>
    /\ call.result.outcome = "returned"
    /\ call.result.value = [bleu |-> 100]

\* C5: bleu of non-empty targets and predictions does not raise and returns
\* a mapping whose only key is "bleu" and whose value is a number, for flat
\* and for nested targets.
C5_ReturnsSingleMetric ==
  (call.made /\ call.predictions # <<>> /\ call.targets # <<>>) =>
    /\ call.result.outcome = "returned"
    /\ DOMAIN call.result.value = {"bleu"}
    /\ call.result.value.bleu \in 0..100

\* C8: bleu of non-empty targets calls the scoring routine; for flat targets
\* the references passed are one list with the targets in order, for nested
\* targets they are one list per element of targets, with that element's
\* items in order.
C8_ReferenceShape ==
  (call.made /\ call.targets # <<>>) =>
    /\ call.result.scored
    /\ IF isinstance_list(call.targets[1])
         THEN /\ Len(call.result.refs) = Len(call.targets)
              /\ \A i \in 1..Len(call.targets) :
                   /\ Len(call.result.refs[i]) = Len(call.targets[i].items)
                   /\ \A j \in 1..Len(call.targets[i].items) :
                        call.result.refs[i][j].s = call.targets[i].items[j].s
         ELSE /\ Len(call.result.refs) = 1
              /\ Len(call.result.refs[1]) = Len(call.targets)
              /\ \A i \in 1..Len(call.targets) :
                   call.result.refs[1][i].s = call.targets[i].s

RegistriesKept ==
  /\ \A n \in DOMAIN TaskRegistry :
       n \in DOMAIN TaskRegistry' /\ TaskRegistry'[n] = TaskRegistry[n]
  /\ \A n \in DOMAIN MixtureRegistry :
       n \in DOMAIN MixtureRegistry' /\ MixtureRegistry'[n] = MixtureRegistry[n]

RegistriesUnchanged ==
  /\ TaskRegistry' = TaskRegistry
  /\ MixtureRegistry' = MixtureRegistry

\* C6: no step removes or changes an entry of either registry; an add
\* statement that completes adds exactly one name, which was not registered
\* before, to its registry and leaves the other registry alone; in a load
\* that started from empty registries every add statement completes; every
\* other statement, and every step taken while no load is in progress,
\* leaves both registries unchanged.
C6_RegistriesOnlyGrow ==
  [][ /\ RegistriesKept
      /\ (status = "loading" /\ Stmt.op = "task" /\ status' # "failed") =>
           /\ Stmt.name \notin DOMAIN TaskRegistry
           /\ DOMAIN TaskRegistry' = DOMAIN TaskRegistry \cup {Stmt.name}
           /\ MixtureRegistry' = MixtureRegistry
      /\ (status = "loading" /\ Stmt.op = "mixture" /\ status' # "failed") =>
           /\ Stmt.name \notin DOMAIN MixtureRegistry
           /\ DOMAIN MixtureRegistry' = DOMAIN MixtureRegistry \cup {Stmt.name}
           /\ TaskRegistry' = TaskRegistry
      /\ (status = "loading" /\ Stmt.op \in {"task", "mixture"} /\ CleanLoad)
           => status' # "failed"
      /\ (status = "loading" /\ Stmt.op \notin {"task", "mixture"})
           => RegistriesUnchanged
      /\ status' = "failed" => RegistriesUnchanged
      /\ status # "loading" => RegistriesUnchanged
    ]_vars

\* C6 witness: a load has completed and bleu has been called since, with
\* every task and mixture of the module registered.
C6_Witness ==
  /\ status = "done"
  /\ call.made
  /\ Cardinality(DOMAIN TaskRegistry) = Cardinality(StmtsOf("task"))
  /\ Cardinality(DOMAIN MixtureRegistry) = Cardinality(StmtsOf("mixture"))

\* C7: a load that completes has written TOKENIZERS["ja"] exactly once and
\* no load writes it more than once; when "snow", the only task whose metric
\* is bleu, is registered the write has been made; a call of bleu leaves the
\* tokenizer table unchanged.
C7_TokenizerWrittenOnce ==
  [][ /\ tokWrites' <= 1
      /\ status' = "done" => tokWrites' = 1
      /\ N_snow \in added' =>
           /\ tokWrites' = 1
           /\ "ja" \in DOMAIN TOKENIZERS'
           /\ TOKENIZERS'["ja"] = "tokenizer_ja"
      /\ \A n \in DOMAIN TaskRegistry' :
           TaskRegistry'[n].metric_fns = "bleu" <=> n = N_snow
      /\ call' # call =>
           /\ TOKENIZERS' = TOKENIZERS
           /\ tokWrites' = tokWrites
    ]_vars

\* C7 witness: bleu has been called after a completed load, the entry "ja"
\* in place.
C7_Witness ==
  /\ call.made
  /\ status = "done"
  /\ N_snow \in DOMAIN TaskRegistry
  /\ TOKENIZERS["ja"] = "tokenizer_ja"

\* The English source task of each zero-shot mixture.
ZeroShotSource ==
  << <<N_xnli_zeroshot, N_xnli_train>>,
     <<N_pawsx_zeroshot, N_paws>>,
     <<N_xquad_zeroshot, N_squad_train_dev>> >>

\* C9: in each registered zero-shot mixture the source task is a constituent
\* with a "train" split, and every other constituent is a registered task
\* whose splits are among "validation" and "test".
C9_ZeroShotTrainsOnSource ==
  \A k \in 1..Len(ZeroShotSource) :
    ZeroShotSource[k][1] \in DOMAIN MixtureRegistry =>
      LET tasks == MixtureRegistry[ZeroShotSource[k][1]].tasks
          source == ZeroShotSource[k][2]
      IN  /\ \E i \in 1..Len(tasks) : tasks[i] = source
          /\ \A i \in 1..Len(tasks) :
               /\ tasks[i] \in DOMAIN TaskRegistry
               /\ IF tasks[i] = source
                    THEN "train" \in TaskRegistry[tasks[i]].splits
                    ELSE /\ TaskRegistry[tasks[i]].splits
                              \subseteq {"validation", "test"}
                         /\ TaskRegistry[tasks[i]].splits # {}

\* C9 witness: the three zero-shot mixtures are registered.
C9_Witness ==
  /\ N_xnli_zeroshot \in DOMAIN MixtureRegistry
  /\ N_pawsx_zeroshot \in DOMAIN MixtureRegistry
  /\ N_xquad_zeroshot \in DOMAIN MixtureRegistry

\* The state of a failed load.
FailedLoadState ==
  status = "failed" =>
    /\ DOMAIN TaskRegistry = DOMAIN startTasks \cup NamesBefore("task", pc)
    /\ DOMAIN MixtureRegistry
         = DOMAIN startMixtures \cup NamesBefore("mixture", pc)
    /\ added = NamesBefore("task", pc) \cup NamesBefore("mixture", pc)
    /\ \A n \in DOMAIN startTasks : TaskRegistry[n] = startTasks[n]
    /\ \A n \in DOMAIN startMixtures : MixtureRegistry[n] = startMixtures[n]
    /\ \A i \in pc..Len(Program) :
         Program[i].op \in {"task", "mixture"} => Program[i].name \notin added
    /\ N_snow \in DOMAIN startTasks =>
         /\ pc = FirstTaskAdd
         /\ TaskRegistry = startTasks
         /\ MixtureRegistry = startMixtures

\* C10: a load that fails leaves in the registries what they held when the
\* load started and the names its earlier statements registered, and none of
\* the names of the failing or later statements; when the registry held the
\* names of a completed load at the start, the load fails at its first
\* TaskRegistry.add and the registries are as they were at the start; after
\* the failure no further statement of that load runs.
C10_FailureKeepsEarlierRegistrations ==
  [][ /\ FailedLoadState'
      /\ (N_snow \in DOMAIN startTasks' /\ status' = "loading")
           => pc' <= FirstTaskAdd
      /\ (status = "failed" /\ loads' = loads) =>
           /\ pc' = pc
           /\ status' = "failed"
           /\ RegistriesUnchanged
    ]_vars

\* C10 witness: a second load has failed at the first TaskRegistry.add, the
\* registries holding the names of the completed first load.
C10_Witness ==
  /\ status = "failed"
  /\ loads = 2
  /\ N_snow \in DOMAIN startTasks
  /\ pc = FirstTaskAdd
  /\ Cardinality(DOMAIN TaskRegistry) = Cardinality(StmtsOf("task"))
====
